---- MODULE Spec2Model ----
(***************************************************************************)
(* Model of the PDF question-answering service: src/src/rag.js (the        *)
(* retrieval library followed by the HTTP server) and the legacy runner    *)
(* src/src/index.js.                                                       *)
(*                                                                         *)
(* Strings are sequences of one-character strings.  JavaScript's single    *)
(* thread is modelled by one action per run-to-next-await segment of an    *)
(* async function: a segment is atomic, segments of different requests     *)
(* interleave.                                                             *)
(***************************************************************************)
EXTENDS Integers, Sequences, FiniteSets, TLC

Min(a, b) == IF a < b THEN a ELSE b
Max(a, b) == IF a > b THEN a ELSE b

(***************************************************************************)
(* String helpers (JavaScript semantics).                                  *)
(***************************************************************************)
Whitespace == {" ", "\n"}

\* String.prototype.slice(start, end): negative indexes count from the end,
\* indexes are clamped to [0, length], an empty range yields "".
Slice(s, start, end) ==
  LET len  == Len(s)
      from == IF start < 0 THEN Max(len + start, 0) ELSE Min(start, len)
      to   == IF end < 0 THEN Max(len + end, 0) ELSE Min(end, len)
  IN  IF from < to THEN SubSeq(s, from + 1, to) ELSE << >>

RECURSIVE TrimStart(_)
TrimStart(s) ==
  IF s # << >> /\ Head(s) \in Whitespace THEN TrimStart(Tail(s)) ELSE s

RECURSIVE TrimEnd(_)
TrimEnd(s) ==
  IF s # << >> /\ s[Len(s)] \in Whitespace
    THEN TrimEnd(SubSeq(s, 1, Len(s) - 1))
    ELSE s

\* String.prototype.trim()
Trim(s) == TrimEnd(TrimStart(s))

(***************************************************************************)
(* chunkText(text, size, overlap): rag.js 36-45 (index.js 49-57 is the     *)
(* same loop).  The loop is modelled through its condition and its body;   *)
(* st = [content, size, overlap, i, chunks, visited, emitted] where        *)
(* visited / emitted record the values of i at which the body ran / pushed.*)
(***************************************************************************)
ChunkStart(text, size, overlap) ==
  [content |-> text, size |-> size, overlap |-> overlap, i |-> 0,
   chunks |-> << >>, visited |-> << >>, emitted |-> << >>]

\* a loop that stops before a trailing window shorter than size
ChunkLoopCondFullWindow(st) == st.i + st.size <= Len(st.content)

\* for (...; i < content.length; ...)
ChunkLoopCond(st) == st.i < Len(st.content)

\* for (...; ...; i += size - overlap)
ChunkAdvance(st) == st.i + (st.size - st.overlap)

\* const chunk = content.slice(i, i + size).trim(); if (chunk) chunks.push(chunk);
ChunkLoopBody(st) ==
  LET chunk == Trim(Slice(st.content, st.i, st.i + st.size))
  IN  [st EXCEPT !.chunks  = IF chunk # << >> THEN Append(@, chunk) ELSE @,
                 !.emitted = IF chunk # << >> THEN Append(@, st.i) ELSE @,
                 !.visited = Append(@, st.i),
                 !.i       = ChunkAdvance(st)]

(***************************************************************************)
(* Bounds of the model.                                                    *)
(***************************************************************************)
MaxTextLen == 4     \* longest generated input text of the chunker runs
MaxIter    == 6     \* loop iterations followed in a chunker run
MaxSize    == 3     \* largest size and overlap of the chunker runs
LongLen    == 650   \* length of the text of the large document

(***************************************************************************)
(* Program constants.                                                      *)
(***************************************************************************)
DefaultSize    == 800   \* chunkText: size = 800
DefaultOverlap == 160   \* chunkText: overlap = 160
DefaultTopK    == 3     \* ask: topK = 3, handler: topK || 3
BatchLimit     == 50    \* upsertChunks: batch.length >= 50
SnippetLen     == 600   \* ask: context.slice(0, 600)

\* chunkText as the server calls it: the loop run to completion.
RECURSIVE ChunkLoop(_)
ChunkLoop(st) ==
  IF ChunkLoopCond(st) THEN ChunkLoop(ChunkLoopBody(st)) ELSE st.chunks

\* if (!content) return chunks; for (...) {...} return chunks;
chunkText(text, size, overlap) ==
  IF text = << >> THEN << >> ELSE ChunkLoop(ChunkStart(text, size, overlap))

(***************************************************************************)
(* Retrieval helpers of ask(): rag.js 124-127, 150-155.                    *)
(***************************************************************************)
RECURSIVE DotFrom(_, _, _, _)
DotFrom(a, b, i, len) ==
  IF i > len THEN 0 ELSE a[i] * b[i] + DotFrom(a, b, i + 1, len)

\* function dot(a, b)
dot(a, b) == DotFrom(a, b, 1, Min(Len(a), Len(b)))

\* a comparator that ranks the lowest score first
CompareAscending(a, b) == a.score - b.score

\* (a, b) => b.score - a.score
Compare(a, b) == b.score - a.score

\* Array.prototype.sort is stable: an element is placed after every element
\* that does not compare greater than it.
RECURSIVE InsertSorted(_, _)
InsertSorted(sorted, x) ==
  IF sorted = << >> THEN << x >>
  ELSE IF Compare(Head(sorted), x) <= 0
         THEN << Head(sorted) >> \o InsertSorted(Tail(sorted), x)
         ELSE << x >> \o sorted

RECURSIVE SortScores(_)
SortScores(s) ==
  IF s = << >> THEN << >>
  ELSE InsertSorted(SortScores(SubSeq(s, 1, Len(s) - 1)), s[Len(s)])

\* localVectors.map((v) => ({ id, text, score: dot(embedding, v.values) }));
\* pos is the position of v in localVectors (kept for the analysis only).
ScoreAll(store, embedding) ==
  [n \in 1..Len(store) |->
     [id |-> store[n].id, text |-> store[n].text,
      score |-> dot(embedding, store[n].values), pos |-> n]]

\* scores.sort(...); const top = scores.slice(0, topK);
TopOf(store, embedding, topK) ==
  Slice(SortScores(ScoreAll(store, embedding)), 0, topK)

RECURSIVE Join(_, _)
Join(parts, sep) ==
  IF parts = << >> THEN << >>
  ELSE IF Len(parts) = 1 THEN parts[1]
  ELSE parts[1] \o sep \o Join(Tail(parts), sep)

BlankLine == << "\n", "\n" >>

\* top.map((t) => String(t.text || "")).join("\n\n")
ContextOf(top) == Join([n \in 1..Len(top) |-> top[n].text], BlankLine)

(***************************************************************************)
(* The environment: file system, request bodies, results of the models.    *)
(* A path is the sequence of its components; "/" heads an absolute path.   *)
(***************************************************************************)
Cwd == << "/", "cwd" >>

ShortText == << "h", "i" >>
LongText  == [n \in 1..LongLen |-> IF n % 7 = 0 THEN " " ELSE "x"]

\* Files outside the working directory: text is what pdf() extracts,
\* ok = FALSE is a file pdf() rejects.
OtherFiles ==
  (<< "/", "up", "a.pdf" >>   :> [ok |-> TRUE,  text |-> LongText]) @@
  (<< "/", "up", "bad.pdf" >> :> [ok |-> FALSE, text |-> << >>])

\* The possible contents of the working directory (fs.readdirSync order).
CwdListings == { << >>, << "notes.txt", "a.pdf" >> }

\* name.toLowerCase().endsWith(".pdf")
IsPdfName(name) == name \in {"a.pdf", "bad.pdf"}

\* path.resolve(filePath)
Resolve(p) == IF p # << >> /\ Head(p) = "/" THEN p ELSE Cwd \o p

\* path.basename(filePath)
Basename(p) == IF p = << >> THEN "" ELSE p[Len(p)]

\* `${namespace || "chunk"}-${i}`
ChunkId(namespace, i) ==
  (IF namespace = "" THEN "chunk" ELSE namespace) \o "-" \o ToString(i)

\* An undefined value of a request body; the empty sequence is the empty
\* string, which JavaScript also takes as false.
Undefined == << "undefined" >>
Falsy(v)  == v = Undefined \/ v = << >>

Questions == { Undefined, << >>, << "q" >>, << "w" >> }
TopKs     == { 0, 1 }             \* 0: topK absent or 0
PathBodies ==
  { << >>,                         \* paths absent, not an array or empty
    << << "a.pdf" >> >>,
    << << "/", "up", "a.pdf" >>, << "/", "up", "bad.pdf" >>, << "a.pdf" >> >> }

\* The embedding model: a deterministic function from a text to a
\* normalised vector (pooling: "mean", normalize: true).
EmbeddingOf(text) ==
  IF text # << >> /\ (Len(text) > 100 \/ Head(text) = "w")
    THEN << 0, 1 >> ELSE << 1, 0 >>

\* Answers of the question-answering model (result?.answer || result?.text || "").
QAOutputs == { << >>, << "y" >> }

EnvNames == { "OPENAI_API_KEY", "PINECONE_API_KEY", "PINECONE_INDEX" }
Requests == { "r1", "r2" }
Tasks    == { "startup" } \cup Requests

(***************************************************************************)
(* State.                                                                  *)
(***************************************************************************)
VARIABLES
  program,            \* which entry point runs: "server" or "cli" (index.js)
  env,                \* the set of environment variables that are set
  cwdEntries,         \* entries of the working directory
  phase,              \* "boot", "configured", "listening", "config_error"
  useCloud,           \* rag.js: let useCloud
  clients,            \* rag.js: openai and pinecone are constructed
  embeddingExtractor, \* rag.js: let embeddingExtractor (TRUE: defined)
  qaPipeline,         \* rag.js: let qaPipeline (TRUE: defined)
  embedBuilt,         \* feature-extraction models constructed so far
  qaBuilt,            \* question-answering models constructed so far
  localVectors,       \* rag.js: const localVectors
  cloudIndex,         \* records of the hosted vector index
  proc,               \* per task: the suspended async call chain
  run                 \* a run of chunkText, one loop iteration at a time

vars == << program, env, cwdEntries, phase, useCloud, clients,
           embeddingExtractor, qaPipeline, embedBuilt, qaBuilt,
           localVectors, cloudIndex, proc, run >>

serverVars == << program, env, cwdEntries, phase, useCloud, clients,
                 embeddingExtractor, qaPipeline, embedBuilt, qaBuilt,
                 localVectors, cloudIndex, proc >>

IdleTask ==
  [kind |-> "none", pc |-> "idle",
   paths |-> << >>, pi |-> 0, ns |-> "", chunks |-> << >>, ci |-> 0,
   batch |-> << >>, final |-> FALSE, total |-> 0, totalStored |-> << >>,
   question |-> Undefined, topK |-> 0, qvec |-> << >>, snap |-> << >>,
   top |-> << >>, context |-> << >>, answer |-> << >>,
   qaFailed |-> FALSE,
   outcome |-> "", calls |-> 0, extracted |-> 0, failedAt |-> 0]

NoRun == [pc |-> "off", st |-> ChunkStart(<< >>, 0, 0)]

(***************************************************************************)
(* File system access.                                                     *)
(***************************************************************************)
InCwd(abs) == \E n \in 1..Len(cwdEntries) : abs = Cwd \o << cwdEntries[n] >>

\* fs.readFileSync(filePath) succeeds
FileExists(abs) == abs \in DOMAIN OtherFiles \/ InCwd(abs)

\* what pdf(dataBuffer) makes of the file
FileData(abs) ==
  IF abs \in DOMAIN OtherFiles THEN OtherFiles[abs]
  ELSE IF IsPdfName(Basename(abs)) THEN [ok |-> TRUE, text |-> ShortText]
  ELSE [ok |-> FALSE, text |-> << >>]

\* listLocalPdfCandidates([process.cwd()])
listLocalPdfCandidates(entries) ==
  LET pdfs == SelectSeq(entries, IsPdfName)
  IN  [n \in 1..Len(pdfs) |-> Cwd \o << pdfs[n] >>]

(***************************************************************************)
(* Mode selection.                                                         *)
(***************************************************************************)
\* Boolean(env.OPENAI_API_KEY && env.PINECONE_API_KEY && env.PINECONE_INDEX)
configureModeFromEnv(e) ==
  "OPENAI_API_KEY" \in e /\ "PINECONE_API_KEY" \in e /\ "PINECONE_INDEX" \in e

\* index.js assertEnv(): TRUE when it throws
assertEnvThrows(e, cloud) ==
  IF ~cloud THEN FALSE ELSE { k \in EnvNames : k \notin e } # {}

(***************************************************************************)
(* Segments of the async call chains, as functions on a task record p.     *)
(***************************************************************************)
\* the frames of ingestPDF / upsertChunks are left
Unwind(p) ==
  [p EXCEPT !.chunks = << >>, !.ci = 0, !.ns = "", !.batch = << >>,
            !.final = FALSE]

\* the index of the document an exception is raised in (analysis only)
MarkFailed(p) == [p EXCEPT !.failedAt = p.pi]

\* a catch that swallows the error and reports the documents stored so far
ThrowSwallowed(p) ==
  [Unwind(p) EXCEPT !.pc = "done", !.outcome = "ok", !.totalStored = << p.total >>]

\* An exception leaves ingestManyPaths / ask and reaches the catch of the
\* handler (res.status(500)) or of the listen callback (console.warn).
Throw(p) == [Unwind(p) EXCEPT !.pc = "done", !.outcome = "error"]

\* return { totalStored: total } and res.json / console.log
IngestDone(p) ==
  [Unwind(p) EXCEPT !.pc = "done", !.outcome = "ok", !.totalStored = << p.total >>]

\* for (const p of paths) { await ingestPDF(p) ... : extractText up to
\* its await; readFileSync throws when the file is missing.
BeginDoc(p) ==
  IF p.pi > Len(p.paths) THEN IngestDone(p)
  ELSE IF ~FileExists(Resolve(p.paths[p.pi]))
         THEN Throw(MarkFailed([p EXCEPT !.extracted = @ + 1]))
         ELSE [p EXCEPT !.pc = "extract", !.extracted = @ + 1]

\* return { stored: chunks.length }; total += stored; next path
FinishDoc(p) ==
  BeginDoc([Unwind(p) EXCEPT !.total = @ + Len(p.chunks), !.pi = @ + 1])

\* createEmbedding(text) up to its first await
StartEmbedding(p) ==
  [p EXCEPT !.calls = @ + 1,
            !.pc = IF useCloud \/ embeddingExtractor THEN "embed"
                   ELSE "loadEmbed"]

\* the head of the loop of upsertChunks
BeginChunk(p) ==
  IF p.ci < Len(p.chunks) THEN StartEmbedding(p)
  ELSE IF useCloud /\ p.batch # << >>
         THEN [p EXCEPT !.pc = "upsert", !.final = TRUE]
         ELSE FinishDoc(p)

\* ingestManyPaths(targetPaths) up to its first await
BeginIngest(kind, targetPaths) ==
  BeginDoc([IdleTask EXCEPT !.kind = kind, !.paths = targetPaths, !.pi = 1])

\* a handler without the check of the question
AskHandlerNoCheck(question, topK) ==
  StartEmbedding([IdleTask EXCEPT
                    !.kind = "ask", !.question = question,
                    !.topK = IF topK = 0 THEN DefaultTopK ELSE topK])

\* app.post("/api/ask"): the handler up to its first await;
\* if (!question) return res.status(400)...; ask(question, topK || 3)
AskHandler(question, topK) ==
  LET p == [IdleTask EXCEPT !.kind = "ask", !.question = question]
  IN  IF Falsy(question)
        THEN [p EXCEPT !.pc = "done", !.outcome = "bad_request"]
        ELSE StartEmbedding(
               [p EXCEPT !.topK = IF topK = 0 THEN DefaultTopK ELSE topK])

\* index.upsert(batch) as the hosted index does it: a record replaces the
\* record of the same id
Upsert(index, batch) ==
  LET ids == { batch[n].id : n \in 1..Len(batch) }
  IN  { r \in index : r.id \notin ids } \cup { batch[n] : n \in 1..Len(batch) }

\* index.query({ topK, ... }).matches: some ranking of the index
Matches(index, topK) ==
  LET m == Min(Max(topK, 0), Cardinality(index))
  IN  { s \in [1..m -> index] : \A a, b \in 1..m : a # b => s[a] # s[b] }

(***************************************************************************)
(* Start of the programs.                                                  *)
(***************************************************************************)
Init ==
  /\ program \in { "server", "cli" }
  /\ env \in SUBSET EnvNames
  /\ cwdEntries \in IF program = "server" THEN CwdListings ELSE { << >> }
  /\ phase = "boot"
  /\ useCloud = FALSE
  /\ clients = FALSE
  /\ embeddingExtractor = FALSE
  /\ qaPipeline = FALSE
  /\ embedBuilt = 0
  /\ qaBuilt = 0
  /\ localVectors = << >>
  /\ cloudIndex = { }
  /\ proc = [t \in Tasks |-> IdleTask]
  /\ run = NoRun

\* server, top level: configureModeFromEnv(process.env);
\* if (useCloud) initCloudClients(process.env); app.listen(PORT, ...)
ServerStart ==
  /\ program = "server" /\ phase = "boot"
  /\ useCloud' = configureModeFromEnv(env)
  /\ clients' = useCloud'
  /\ phase' = "configured"
  /\ UNCHANGED << program, env, cwdEntries, embeddingExtractor, qaPipeline,
                  embedBuilt, qaBuilt, localVectors, cloudIndex, proc, run >>

\* index.js, top level and the head of its main function: useCloud,
\* assertEnv(), construction of the clients
LegacyStart ==
  /\ program = "cli" /\ phase = "boot"
  /\ useCloud' = configureModeFromEnv(env)
  /\ IF assertEnvThrows(env, useCloud')
       THEN phase' = "config_error" /\ clients' = FALSE
       ELSE phase' = "cli_running" /\ clients' = useCloud'
  /\ UNCHANGED << program, env, cwdEntries, embeddingExtractor, qaPipeline,
                  embedBuilt, qaBuilt, localVectors, cloudIndex, proc, run >>

\* the callback of app.listen up to its first await
ListenCallback ==
  /\ phase = "configured"
  /\ phase' = "listening"
  /\ LET toIngest == listLocalPdfCandidates(cwdEntries)
     IN  proc' = [proc EXCEPT !["startup"] =
                    IF Len(toIngest) > 0
                      THEN BeginIngest("startup", toIngest)
                      ELSE [IdleTask EXCEPT !.kind = "startup",
                                            !.pc = "done", !.outcome = "ok"]]
  /\ UNCHANGED << program, env, cwdEntries, useCloud, clients,
                  embeddingExtractor, qaPipeline, embedBuilt, qaBuilt,
                  localVectors, cloudIndex, run >>

\* requests are numbered in the order of their arrival
MayArrive(t) ==
  /\ phase = "listening"
  /\ proc[t].kind = "none"
  /\ t = "r2" => proc["r1"].kind # "none"

\* POST /api/ingest arrives: app.post("/api/ingest") up to its first await
IngestRequest(t) ==
  /\ MayArrive(t)
  /\ \E paths \in PathBodies :
       LET targetPaths == IF Len(paths) > 0 THEN paths
                          ELSE listLocalPdfCandidates(cwdEntries)
       IN  proc' = [proc EXCEPT ![t] = BeginIngest("ingest", targetPaths)]
  /\ UNCHANGED << program, env, cwdEntries, phase, useCloud, clients,
                  embeddingExtractor, qaPipeline, embedBuilt, qaBuilt,
                  localVectors, cloudIndex, run >>

\* POST /api/ask arrives with body { question: q, topK: k }
AskRequest(t) ==
  /\ MayArrive(t)
  /\ \E q \in Questions, k \in TopKs :
       proc' = [proc EXCEPT ![t] = AskHandler(q, k)]
  /\ UNCHANGED << program, env, cwdEntries, phase, useCloud, clients,
                  embeddingExtractor, qaPipeline, embedBuilt, qaBuilt,
                  localVectors, cloudIndex, run >>

(***************************************************************************)
(* Resumptions: the awaited promise settles and the chain runs on to its   *)
(* next await.                                                             *)
(***************************************************************************)
\* extractText: await pdf(dataBuffer); return data.text || ""; then
\* chunkText(text) and upsertChunks(chunks, path.basename(filePath))
ExtractResume(t) ==
  /\ proc[t].pc = "extract"
  /\ LET p == proc[t]
         f == FileData(Resolve(p.paths[p.pi]))
     IN  proc' = [proc EXCEPT ![t] =
           IF f.ok
             THEN BeginChunk([p EXCEPT
                    !.chunks = chunkText(f.text, DefaultSize, DefaultOverlap),
                    !.ci = 0, !.batch = << >>,
                    !.ns = Basename(p.paths[p.pi])])
             ELSE Throw(MarkFailed(p))]
  /\ UNCHANGED << program, env, cwdEntries, phase, useCloud, clients,
                  embeddingExtractor, qaPipeline, embedBuilt, qaBuilt,
                  localVectors, cloudIndex, run >>

\* embeddingExtractor = await pipeline("feature-extraction", ...); then the
\* call of embeddingExtractor(...)
LoadEmbedResume(t) ==
  /\ proc[t].pc = "loadEmbed"
  /\ \/ /\ embeddingExtractor' = TRUE
        /\ embedBuilt' = embedBuilt + 1
        /\ proc' = [proc EXCEPT ![t].pc = "embed"]
     \/ /\ proc' = [proc EXCEPT ![t] = Throw(MarkFailed(proc[t]))]
        /\ UNCHANGED << embeddingExtractor, embedBuilt >>
  /\ UNCHANGED << program, env, cwdEntries, phase, useCloud, clients,
                  qaPipeline, qaBuilt, localVectors, cloudIndex, run >>

\* ask, local mode, 124-130: scores, sort, slice, context; the snapshot of
\* localVectors is kept for the analysis only
Retrieve(p, embedding) ==
  LET top == TopOf(localVectors, embedding, p.topK)
  IN  [p EXCEPT !.qvec = embedding, !.snap = localVectors, !.top = top,
                !.context = ContextOf(top), !.calls = @ + 1,
                !.pc = IF qaPipeline THEN "qa" ELSE "loadQA"]

\* a store that replaces the record of the same id instead of appending
PushReplacing(store, rec) ==
  IF \E n \in 1..Len(store) : store[n].id = rec.id
    THEN [n \in 1..Len(store) |-> IF store[n].id = rec.id THEN rec ELSE store[n]]
    ELSE Append(store, rec)

\* localVectors.push(record)
Push(store, rec) == Append(store, rec)

\* the record upsertChunks builds for chunk ci
RecordOf(p, embedding) ==
  [id |-> ChunkId(p.ns, p.ci), values |-> embedding, text |-> p.chunks[p.ci + 1]]

NextChunk(p) == BeginChunk([p EXCEPT !.ci = @ + 1])

\* the text createEmbedding was called with
EmbedInput(p) == IF p.kind = "ask" THEN p.question ELSE p.chunks[p.ci + 1]

\* createEmbedding returns (the extractor or the hosted service answers)
EmbedResume(t) ==
  /\ proc[t].pc = "embed"
  /\ LET p == proc[t] IN
     \/ /\ proc' = [proc EXCEPT ![t] = Throw(MarkFailed(p))]
        /\ UNCHANGED localVectors
     \/ LET v == EmbeddingOf(EmbedInput(p)) IN
          IF p.kind = "ask"
            THEN /\ proc' = [proc EXCEPT ![t] =
                       IF useCloud THEN [p EXCEPT !.qvec = v, !.pc = "query",
                                                  !.calls = @ + 1]
                       ELSE Retrieve(p, v)]
                 /\ UNCHANGED localVectors
          ELSE IF useCloud
            THEN /\ proc' = [proc EXCEPT ![t] =
                       LET q == [p EXCEPT !.batch = Append(@, RecordOf(p, v))]
                       IN  IF Len(q.batch) >= BatchLimit
                             THEN [q EXCEPT !.pc = "upsert", !.final = FALSE]
                             ELSE NextChunk(q)]
                 /\ UNCHANGED localVectors
          ELSE /\ localVectors' = Push(localVectors, RecordOf(p, v))
               /\ proc' = [proc EXCEPT ![t] = NextChunk(p)]
  /\ UNCHANGED << program, env, cwdEntries, phase, useCloud, clients,
                  embeddingExtractor, qaPipeline, embedBuilt, qaBuilt,
                  cloudIndex, run >>

\* await index.upsert(batch) settles
UpsertResume(t) ==
  /\ proc[t].pc = "upsert"
  /\ LET p == proc[t] IN
     \/ /\ proc' = [proc EXCEPT ![t] = Throw(MarkFailed(p))]
        /\ UNCHANGED cloudIndex
     \/ /\ cloudIndex' = Upsert(cloudIndex, p.batch)
        /\ proc' = [proc EXCEPT ![t] =
             IF p.final THEN FinishDoc(p)
             ELSE NextChunk([p EXCEPT !.batch = << >>])]
  /\ UNCHANGED << program, env, cwdEntries, phase, useCloud, clients,
                  embeddingExtractor, qaPipeline, embedBuilt, qaBuilt,
                  localVectors, run >>

\* qaPipeline = await pipeline("question-answering", ...); then the call
\* of qaPipeline(...)
LoadQAResume(t) ==
  /\ proc[t].pc = "loadQA"
  /\ \/ /\ qaPipeline' = TRUE
        /\ qaBuilt' = qaBuilt + 1
        /\ proc' = [proc EXCEPT ![t].pc = "qa"]
     \/ /\ proc' = [proc EXCEPT ![t] = Throw([proc[t] EXCEPT !.qaFailed = TRUE])]
        /\ UNCHANGED << qaPipeline, qaBuilt >>
  /\ UNCHANGED << program, env, cwdEntries, phase, useCloud, clients,
                  embeddingExtractor, embedBuilt, localVectors, cloudIndex,
                  run >>

\* try { result = await qaPipeline(...); answer = result?.answer || ... }
\* catch (e) { answer = context.slice(0, 600) }
QAResume(t) ==
  /\ proc[t].pc = "qa"
  /\ LET p == proc[t] IN
     \/ \E a \in QAOutputs :
          proc' = [proc EXCEPT ![t] =
                     [p EXCEPT !.answer = a, !.pc = "done", !.outcome = "ok"]]
     \/ proc' = [proc EXCEPT ![t] =
                   [p EXCEPT !.answer = Slice(p.context, 0, SnippetLen),
                             !.qaFailed = TRUE,
                             !.pc = "done", !.outcome = "ok"]]
  /\ UNCHANGED << program, env, cwdEntries, phase, useCloud, clients,
                  embeddingExtractor, qaPipeline, embedBuilt, qaBuilt,
                  localVectors, cloudIndex, run >>

\* await index.query(...) settles; context from the matches
QueryResume(t) ==
  /\ proc[t].pc = "query"
  /\ LET p == proc[t] IN
     \/ proc' = [proc EXCEPT ![t] = Throw(p)]
     \/ \E m \in Matches(cloudIndex, p.topK) :
          proc' = [proc EXCEPT ![t] =
            [p EXCEPT !.context =
                        Join(SelectSeq([n \in 1..Len(m) |-> m[n].text],
                                       LAMBDA x : x # << >>), BlankLine),
                      !.calls = @ + 1,
                      !.pc = "complete"]]
  /\ UNCHANGED << program, env, cwdEntries, phase, useCloud, clients,
                  embeddingExtractor, qaPipeline, embedBuilt, qaBuilt,
                  localVectors, cloudIndex, run >>

\* await openai.chat.completions.create(...) settles;
\* answer: content?.trim() || ""
CompleteResume(t) ==
  /\ proc[t].pc = "complete"
  /\ LET p == proc[t] IN
     \/ proc' = [proc EXCEPT ![t] = Throw(p)]
     \/ \E c \in { << >>, << "y", " " >> } :
          proc' = [proc EXCEPT ![t] =
            [p EXCEPT !.answer = Trim(c), !.pc = "done", !.outcome = "ok"]]
  /\ UNCHANGED << program, env, cwdEntries, phase, useCloud, clients,
                  embeddingExtractor, qaPipeline, embedBuilt, qaBuilt,
                  localVectors, cloudIndex, run >>

Next ==
  \/ ServerStart
  \/ LegacyStart
  \/ ListenCallback
  \/ \E t \in Requests : IngestRequest(t)
  \/ \E t \in Requests : AskRequest(t)
  \/ \E t \in Tasks : ExtractResume(t)
  \/ \E t \in Tasks : LoadEmbedResume(t)
  \/ \E t \in Tasks : EmbedResume(t)
  \/ \E t \in Tasks : UpsertResume(t)
  \/ \E t \in Tasks : LoadQAResume(t)
  \/ \E t \in Tasks : QAResume(t)
  \/ \E t \in Tasks : QueryResume(t)
  \/ \E t \in Tasks : CompleteResume(t)

Spec == Init /\ [][Next]_vars

(***************************************************************************)
(* Runs of chunkText(text, size, overlap) on their own, one loop iteration *)
(* per step.                                                               *)
(***************************************************************************)
Alphabet == { "a", " " }
Texts == UNION { [1..n -> Alphabet] : n \in 0..MaxTextLen }

ExampleText == << "a", "b", "c", "d", "e", "f", "g", "h", "i", "j" >>

ChunkInputs ==
  { << text, size, overlap >> :
      text \in Texts, size \in -1..MaxSize, overlap \in -1..MaxSize }
  \cup { << ExampleText, 4, 2 >> }

InitChunk ==
  /\ program = "chunker"
  /\ env = { }
  /\ cwdEntries = << >>
  /\ phase = "boot"
  /\ useCloud = FALSE
  /\ clients = FALSE
  /\ embeddingExtractor = FALSE
  /\ qaPipeline = FALSE
  /\ embedBuilt = 0
  /\ qaBuilt = 0
  /\ localVectors = << >>
  /\ cloudIndex = { }
  /\ proc = [t \in Tasks |-> IdleTask]
  /\ \E in \in ChunkInputs :
       run = [pc |-> "call", st |-> ChunkStart(in[1], in[2], in[3])]

\* const content = String(text || ""); if (!content) return chunks;
ChunkEnter ==
  /\ run.pc = "call"
  /\ run' = [run EXCEPT !.pc = IF run.st.content = << >> THEN "done"
                               ELSE "loop"]
  /\ UNCHANGED serverVars

\* one iteration of the for loop
ChunkIterate ==
  /\ run.pc = "loop"
  /\ ChunkLoopCond(run.st)
  /\ Len(run.st.visited) < MaxIter
  /\ run' = [run EXCEPT !.st = ChunkLoopBody(run.st)]
  /\ UNCHANGED serverVars

\* the loop condition fails: return chunks
ChunkReturn ==
  /\ run.pc = "loop"
  /\ ~ChunkLoopCond(run.st)
  /\ run' = [run EXCEPT !.pc = "done"]
  /\ UNCHANGED serverVars

NextChunkRun == ChunkEnter \/ ChunkIterate \/ ChunkReturn

SpecChunk == InitChunk /\ [][NextChunkRun]_vars

(***************************************************************************)
(* Properties of chunkText (checked under SpecChunk).                      *)
(***************************************************************************)
Range(f) == { f[n] : n \in DOMAIN f }

\* the positions (from 1) of the window that starts at offset o
Window(o, size, len) == { pos \in 1..len : o < pos /\ pos <= o + size }

HasText(content, positions) ==
  \E pos \in positions : content[pos] \notin Whitespace

\* chunk is the window at o without the whitespace at its two ends
IsTrimmedWindow(chunk, content, o, size) ==
  LET w == Window(o, size, Len(content)) IN
  \E a, b \in w :
    /\ a <= b
    /\ chunk = SubSeq(content, a, b)
    /\ content[a] \notin Whitespace
    /\ content[b] \notin Whitespace
    /\ \A pos \in w : (pos < a \/ pos > b) => content[pos] \in Whitespace

ExampleChunks ==
  << << "a", "b", "c", "d" >>, << "c", "d", "e", "f" >>,
     << "e", "f", "g", "h" >>, << "g", "h", "i", "j" >>, << "i", "j" >> >>

\* the loop has visited exactly the offsets 0, step, 2*step, ... below len
VisitsEveryStep(st) ==
  LET step == st.size - st.overlap
      len  == Len(st.content)
  IN  /\ \A j \in 1..Len(st.visited) :
           st.visited[j] = (j - 1) * step /\ st.visited[j] < len
      /\ Len(st.visited) * step >= len

\* C2 (as amended): for a non-empty text and 0 <= overlap < size the loop
\* examines the windows at the offsets 0, size-overlap, 2*(size-overlap), ...
\* below the text length, these windows cover the whole input, and the
\* result holds, in order, the trimmed text of each window that is not
\* whitespace only: every character that is not whitespace lies in an
\* emitted window, and a text without whitespace yields exactly its windows
\* ("abcdefghij", 4, 2 yields abcd, cdef, efgh, ghij, ij).
C2_ChunksCoverText ==
  LET st  == run.st
      len == Len(st.content)
  IN  (run.pc = "done" /\ len > 0 /\ 0 <= st.overlap /\ st.overlap < st.size) =>
        /\ VisitsEveryStep(st)
        /\ \A pos \in 1..len :
             \E j \in 1..Len(st.visited) :
               pos \in Window(st.visited[j], st.size, len)
        /\ Len(st.chunks) = Len(st.emitted)
        /\ \A j \in 1..Len(st.emitted) :
             /\ IsTrimmedWindow(st.chunks[j], st.content, st.emitted[j], st.size)
             /\ j > 1 => st.emitted[j - 1] < st.emitted[j]
        /\ Range(st.emitted) =
             { o \in Range(st.visited) :
                 HasText(st.content, Window(o, st.size, len)) }
        /\ \A pos \in 1..len :
             st.content[pos] \notin Whitespace =>
               \E j \in 1..Len(st.emitted) :
                 pos \in Window(st.emitted[j], st.size, len)
        /\ (\A pos \in 1..len : st.content[pos] \notin Whitespace) =>
             /\ st.emitted = st.visited
             /\ \A j \in 1..Len(st.chunks) :
                  st.chunks[j] =
                    SubSeq(st.content, st.emitted[j] + 1,
                           Min(st.emitted[j] + st.size, len))
        /\ (st.content = ExampleText /\ st.size = 4 /\ st.overlap = 2) =>
             st.chunks = ExampleChunks

\* C2, witness: the run of the example has returned its five chunks.
C2_Witness ==
  /\ run.pc = "done"
  /\ run.st.content = ExampleText
  /\ run.st.emitted = << 0, 2, 4, 6, 8 >>
  /\ run.st.chunks = ExampleChunks

\* C2 as stated: for a non-empty text and any overlap < size the emitted
\* windows start at 0, size-overlap, 2*(size-overlap), ... and together
\* cover the entire input.
C2_Original ==
  LET st  == run.st
      len == Len(st.content)
  IN  (run.pc = "done" /\ len > 0 /\ st.overlap < st.size) =>
        /\ \A j \in 1..Len(st.emitted) :
             st.emitted[j] = (j - 1) * (st.size - st.overlap)
        /\ \A pos \in 1..len :
             \E j \in 1..Len(st.emitted) :
               pos \in Window(st.emitted[j], st.size, len)

\* C3: a call with a non-empty text and overlap >= size fails with a
\* configuration error: it never enters the loop, whose offset would stay
\* put or move backwards.
C3_FailsFast ==
  (run.st.content # << >> /\ run.st.overlap >= run.st.size) =>
    (run.pc \in { "call", "error" } /\ run.st.visited = << >>)

(***************************************************************************)
(* Properties of the server (checked under Spec).                          *)
(***************************************************************************)
LocalAsk(t) == ~useCloud /\ proc[t].kind = "ask"

\* the retrieval step of ask() has run for task t
Retrieved(t) == LocalAsk(t) /\ proc[t].qvec # << >>

\* the dot product of two vectors of the embedding model
DotProduct(a, b) == a[1] * b[1] + a[2] * b[2]

\* x is ranked before y: higher score, or equal score and stored earlier
RankedBefore(x, y) ==
  x.score > y.score \/ (x.score = y.score /\ x.pos < y.pos)

\* C1: in local mode the retrieval step of ask(question, k) over a store of
\* N records selects exactly min(k, N) of them, ordered by descending dot
\* product with the question vector, equal scores in insertion order, and
\* two calls on the same store, question vector and k select the same
\* sequence.
C1_TopKRanked ==
  \A t \in Tasks :
    Retrieved(t) =>
      LET p == proc[t]
          N == Len(p.snap)
      IN  /\ Len(p.top) = Min(p.topK, N)
          /\ \A i \in 1..Len(p.top) :
               /\ p.top[i].pos \in 1..N
               /\ p.top[i].id = p.snap[p.top[i].pos].id
               /\ p.top[i].text = p.snap[p.top[i].pos].text
               /\ p.top[i].score =
                    DotProduct(p.qvec, p.snap[p.top[i].pos].values)
          /\ \A i, j \in 1..Len(p.top) :
               i < j => RankedBefore(p.top[i], p.top[j])
          /\ \A n \in 1..N :
               (\A i \in 1..Len(p.top) : p.top[i].pos # n) =>
                 \A i \in 1..Len(p.top) :
                   RankedBefore(p.top[i],
                     [score |-> DotProduct(p.qvec, p.snap[n].values), pos |-> n])
          /\ \A u \in Tasks :
               (Retrieved(u) /\ proc[u].snap = p.snap /\ proc[u].qvec = p.qvec
                  /\ proc[u].topK = p.topK) => proc[u].top = p.top

\* C1, witness: a retrieval over three records that returns all three, the
\* third stored record ranked second, in front of a lower score and behind
\* an equal score stored earlier.
C1_Witness ==
  \E t \in Tasks :
    /\ Retrieved(t)
    /\ Len(proc[t].snap) = 3
    /\ Len(proc[t].top) = 3
    /\ proc[t].top[1].pos = 1
    /\ proc[t].top[2].pos = 3
    /\ proc[t].top[1].score = proc[t].top[2].score
    /\ proc[t].top[2].score > proc[t].top[3].score

\* C4: in local mode the embedding model and the QA model are each
\* constructed at most once per process, whatever the interleaving of the
\* startup ingestion and the requests.
C4_ModelsBuiltOnce == embedBuilt <= 1 /\ qaBuilt <= 1

\* C5: no two records of the local vector store have the same identifier.
C5_UniqueIds ==
  \A i, j \in 1..Len(localVectors) :
    i # j => localVectors[i].id # localVectors[j].id

IsPrefix(s, w) == Len(s) <= Len(w) /\ SubSeq(w, 1, Len(s)) = s

\* C6: in local mode, when the QA model fails during ask(), ask() returns
\* normally and its answer is a non-empty string of at most 600 characters
\* that is a prefix of the retrieved context.
C6_FallbackAnswer ==
  \A t \in Tasks :
    (LocalAsk(t) /\ proc[t].qaFailed) =>
      /\ proc[t].outcome = "ok"
      /\ proc[t].answer # << >>
      /\ Len(proc[t].answer) <= 600
      /\ IsPrefix(proc[t].answer, proc[t].context)

\* C7: when a document fails during ingestManyPaths the call fails: no total
\* is returned, and no document after the failing one is extracted, embedded
\* or stored (the call has stopped at the failing document).
C7_IngestAborts ==
  \A t \in Tasks :
    proc[t].failedAt > 0 =>
      /\ proc[t].pc = "done"
      /\ proc[t].outcome = "error"
      /\ proc[t].totalStored = << >>
      /\ proc[t].pi = proc[t].failedAt
      /\ proc[t].extracted = proc[t].failedAt

\* C7, witness: a call failed at its second document after storing the
\* first, with a third document left.
C7_Witness ==
  \E t \in Tasks :
    /\ proc[t].failedAt = 2
    /\ Len(proc[t].paths) = 3
    /\ proc[t].total > 0
    /\ proc[t].outcome = "error"

\* C8: mode selection is all-or-nothing: once started, the program runs in
\* cloud mode exactly when all three settings are present, in local mode
\* only when none is, and has reported a configuration error when only some
\* are present.
C8_AllOrNothing ==
  phase # "boot" =>
    /\ useCloud <=> env = EnvNames
    /\ (env # { } /\ env # EnvNames) => phase = "config_error"
    /\ (phase # "config_error" /\ ~useCloud) => env = { }

\* C9: POST /api/ask without a question (missing or empty) is answered with
\* status 400 and calls neither the embedder, the vector store nor the QA
\* model.
C9_MissingQuestionRejected ==
  \A t \in Requests :
    (proc[t].kind = "ask" /\ Falsy(proc[t].question)) =>
      /\ proc[t].pc = "done"
      /\ proc[t].outcome = "bad_request"
      /\ proc[t].calls = 0
      /\ proc[t].qvec = << >>
      /\ proc[t].answer = << >>

\* C9, witness: the second request had no question and was rejected after
\* the first request had called the embedder.
C9_Witness ==
  /\ proc["r2"].kind = "ask"
  /\ Falsy(proc["r2"].question)
  /\ proc["r2"].outcome = "bad_request"
  /\ proc["r1"].calls > 0

\* a step of an ask() call: a request for it arrives or it resumes
AskStep == \E t \in Tasks : proc'[t].kind = "ask" /\ proc'[t] # proc[t]

\* C10: the local store is append-only: every step leaves the stored
\* sequence as a prefix of the new one, and a step of ask() leaves it
\* unchanged.
C10_AppendOnly ==
  [][ /\ IsPrefix(localVectors, localVectors')
      /\ AskStep => localVectors' = localVectors ]_vars

\* C10, witness: an ask() retrieved from a non-empty store that has grown
\* since.
C10_Witness ==
  \E t \in Tasks :
    /\ Retrieved(t)
    /\ Len(proc[t].snap) > 0
    /\ Len(localVectors) > Len(proc[t].snap)

====
